---- MODULE Spec2Model ----
(***************************************************************************)
(* Model of flask_context_manager.py: the `start` command-line scaffolder. *)
(*                                                                         *)
(* The state is the part of the host filesystem the program touches (the   *)
(* ten paths under the working directory that the code names), plus, for   *)
(* every invocation of the program, its command argument, its position in  *)
(* the code, its standard output and its exit code.  Every filesystem      *)
(* system call the code makes (stat, mkdir, open-for-writing) is one       *)
(* atomic step, so that invocations can interleave between them.           *)
(*                                                                         *)
(* Paths are sequences of components: <<"src","main">> is src/main, and    *)
(* <<>> is the working directory itself.                                   *)
(***************************************************************************)
EXTENDS Integers, Sequences, FiniteSets, TLC

VARIABLES
    fs,          \* path -> "absent" | "dir" | "file0" (empty file) | "file1" (non-empty file)
    cwdWritable, \* whether entries may be created directly in the working directory
    cmd,         \* invocation -> its command argument ("none" when missing)
    pc,          \* invocation -> position in the code
    i,           \* invocation -> loop index (into base_dirs, then into config_files)
    depth,       \* invocation -> length of the prefix os.makedirs is working on
    stdout,      \* invocation -> number of success lines written to standard output
    exitcode,    \* invocation -> exit code once pc = "exited" (-1 before)
    log,         \* invocation -> the calls it has made so far (history)
    fsAtStart,   \* invocation -> the filesystem when it was launched (history)
    fs0          \* the filesystem before any invocation (history)

vars == <<fs, cwdWritable, cmd, pc, i, depth, stdout, exitcode, log, fsAtStart, fs0>>

(***************************************************************************)
(* Bounds.                                                                 *)
(***************************************************************************)
\* Number of invocations run one after the other in Spec.
MaxRuns == 2

\* The invocations that run simultaneously in SpecConc.
Instances == {"a", "b"}

(***************************************************************************)
(* The program's constants.                                                *)
(***************************************************************************)
\* base_dirs with its last entry forgotten.
base_dirs_short ==
    << <<"src", "main", "config">>,
       <<"src", "main", "service">>,
       <<"src", "main", "controller">>,
       <<"src", "main", "resources">> >>

base_dirs ==
    << <<"src", "main", "config">>,
       <<"src", "main", "service">>,
       <<"src", "main", "controller">>,
       <<"src", "main", "resources">>,
       <<"src", "test", "resources">> >>

\* The two create_file calls, in program order; content defaults to "".
config_files ==
    << [path |-> <<"src", "main", "resources", "config.ini">>, content |-> ""],
       [path |-> <<"src", "test", "resources", "config.ini">>, content |-> ""] >>

\* argparse: choices=['start'].
choices == {"start"}

\* What the command line may hold: nothing, the recognised token, another token.
Commands == {"none", "start", "stop"}

(***************************************************************************)
(* The filesystem.                                                         *)
(***************************************************************************)
Range(s) == {s[k] : k \in 1..Len(s)}

Prefixes(path) == {SubSeq(path, 1, n) : n \in 1..Len(path)}

Targets == Range(base_dirs) \cup {config_files[k].path : k \in 1..Len(config_files)}

\* Every path the program can name in a system call.
Paths == UNION {Prefixes(t) : t \in Targets}

FilePaths == {config_files[k].path : k \in 1..Len(config_files)}

Parent(path) == SubSeq(path, 1, Len(path) - 1)

IsFile(f, path) == path # <<>> /\ f[path] \in {"file0", "file1"}

IsDir(f, path) == path = <<>> \/ f[path] = "dir"

\* os.path.exists: a stat that succeeds, whatever the kind of the entry.
Exists(f, path) == path = <<>> \/ f[path] # "absent"

\* A filesystem is a tree: an entry lives in a directory.
WellFormed(f) == \A path \in Paths : f[path] # "absent" => IsDir(f, Parent(path))

Kinds(path) == IF path \in FilePaths THEN {"absent", "dir", "file0", "file1"}
               ELSE {"absent", "dir", "file0"}

FileSystems == {f \in [Paths -> {"absent", "dir", "file0", "file1"}] :
                   /\ \A path \in Paths : f[path] \in Kinds(path)
                   /\ WellFormed(f)}

EmptyFs == [path \in Paths |-> "absent"]

\* The trees that hold directories only: an empty or partly scaffolded
\* working directory.
DirectoryTrees == {f \in FileSystems : \A path \in Paths : f[path] \in {"absent", "dir"}}

\* mkdir(2) on path: the error it returns, or "ok".
MkdirResult(f, w, path) ==
    CASE ~Exists(f, Parent(path)) -> "ENOENT"
      [] IsFile(f, Parent(path))  -> "ENOTDIR"
      [] Exists(f, path)          -> "EEXIST"
      [] Parent(path) = <<>> /\ ~w -> "EACCES"
      [] OTHER                    -> "ok"

\* open(path, 'w'): the error it returns, or "ok" (the file created or truncated).
OpenResult(f, path) ==
    CASE ~Exists(f, Parent(path)) -> "ENOENT"
      [] IsFile(f, Parent(path))  -> "ENOTDIR"
      [] f[path] = "dir"          -> "EISDIR"
      [] OTHER                    -> "ok"

\* The file a write of `content` to a truncated file leaves.
Written(content) == IF content = "" THEN "file0" ELSE "file1"

Event(op, path) == [op |-> op, path |-> path]

(***************************************************************************)
(* Control flow shared by the steps.                                       *)
(***************************************************************************)
\* The directories invocation p has made.
Made(p) == {log[p][k].path : k \in {n \in 1..Len(log[p]) : log[p][n].op = "mkdir"}}

\* Raise with a cleanup handler: what p made is removed again (with what lies
\* below it) before the process exits 1.
RaiseRollback(p) ==
    /\ pc' = [pc EXCEPT ![p] = "exited"]
    /\ exitcode' = [exitcode EXCEPT ![p] = 1]
    /\ fs' = [path \in Paths |->
                IF \E m \in Made(p) : m \in Prefixes(path) THEN "absent" ELSE fs[path]]
    /\ UNCHANGED <<cwdWritable, cmd, i, depth, stdout, log, fsAtStart, fs0>>

\* Raise with a catch-all handler around main: the error is swallowed and the
\* process exits 0.
RaiseExitZero(p) ==
    /\ pc' = [pc EXCEPT ![p] = "exited"]
    /\ exitcode' = [exitcode EXCEPT ![p] = 0]
    /\ UNCHANGED <<fs, cwdWritable, cmd, i, depth, stdout, log, fsAtStart, fs0>>

\* An exception nobody catches: the interpreter prints a trace to standard
\* error and exits 1; nothing is undone.
Raise(p) ==
    /\ pc' = [pc EXCEPT ![p] = "exited"]
    /\ exitcode' = [exitcode EXCEPT ![p] = 1]
    /\ UNCHANGED <<fs, cwdWritable, cmd, i, depth, stdout, log, fsAtStart, fs0>>

\* Where the for loop goes once create_directory(base_dirs[i]) returned.
AfterDirectory(p) ==
    IF i[p] < Len(base_dirs)
    THEN /\ pc' = [pc EXCEPT ![p] = "create_directory"]
         /\ i' = [i EXCEPT ![p] = i[p] + 1]
    ELSE /\ pc' = [pc EXCEPT ![p] = "create_file"]
         /\ i' = [i EXCEPT ![p] = 1]

\* Where setup_project_structure goes once create_file(config_files[i]) returned.
AfterFile(p) ==
    IF i[p] < Len(config_files)
    THEN /\ pc' = [pc EXCEPT ![p] = "create_file"]
         /\ i' = [i EXCEPT ![p] = i[p] + 1]
    ELSE /\ pc' = [pc EXCEPT ![p] = "print"]
         /\ i' = i

(***************************************************************************)
(* main                                                                    *)
(***************************************************************************)
\* The shell starts the program with command line c.
Start(p, c) ==
    /\ pc[p] = "idle"
    /\ pc' = [pc EXCEPT ![p] = "parse_args"]
    /\ cmd' = [cmd EXCEPT ![p] = c]
    /\ fsAtStart' = [fsAtStart EXCEPT ![p] = fs]
    /\ UNCHANGED <<fs, cwdWritable, i, depth, stdout, exitcode, log, fs0>>

\* Invocations one after the other: p starts once every earlier one has ended.
Launch(p, c) ==
    /\ \A q \in DOMAIN pc : q < p => pc[q] = "exited"
    /\ Start(p, c)

\* Uncoordinated invocations: p starts whenever.
LaunchAny(p, c) == Start(p, c)

\* ParseArgs without choices=[...]: any token present is accepted.
ParseArgsAnyToken(p) ==
    /\ pc[p] = "parse_args"
    /\ IF cmd[p] # "none"
       THEN /\ pc' = [pc EXCEPT ![p] = "dispatch"]
            /\ UNCHANGED exitcode
       ELSE /\ pc' = [pc EXCEPT ![p] = "exited"]
            /\ exitcode' = [exitcode EXCEPT ![p] = 2]
    /\ UNCHANGED <<fs, cwdWritable, cmd, i, depth, stdout, log, fsAtStart, fs0>>

\* parser.parse_args(): a missing or unlisted command is a usage error on
\* standard error and exit code 2.
ParseArgs(p) ==
    /\ pc[p] = "parse_args"
    /\ IF cmd[p] \in choices
       THEN /\ pc' = [pc EXCEPT ![p] = "dispatch"]
            /\ UNCHANGED exitcode
       ELSE /\ pc' = [pc EXCEPT ![p] = "exited"]
            /\ exitcode' = [exitcode EXCEPT ![p] = 2]
    /\ UNCHANGED <<fs, cwdWritable, cmd, i, depth, stdout, log, fsAtStart, fs0>>

\* if args.command == 'start': setup_project_structure(); otherwise main returns.
Dispatch(p) ==
    /\ pc[p] = "dispatch"
    /\ IF cmd[p] = "start"
       THEN /\ pc' = [pc EXCEPT ![p] = "create_directory"]
            /\ i' = [i EXCEPT ![p] = 1]
            /\ UNCHANGED exitcode
       ELSE /\ pc' = [pc EXCEPT ![p] = "exited"]
            /\ exitcode' = [exitcode EXCEPT ![p] = 0]
            /\ UNCHANGED i
    /\ UNCHANGED <<fs, cwdWritable, cmd, depth, stdout, log, fsAtStart, fs0>>

(***************************************************************************)
(* create_directory                                                        *)
(***************************************************************************)
\* CreateDirectory without the os.path.exists test: os.makedirs is always
\* entered.
CreateDirectoryUnchecked(p) ==
    /\ pc[p] = "create_directory"
    /\ log' = [log EXCEPT ![p] = Append(@, Event("ensure", base_dirs[i[p]]))]
    /\ pc' = [pc EXCEPT ![p] = "makedirs"]
    /\ depth' = [depth EXCEPT ![p] = Len(base_dirs[i[p]])]
    /\ UNCHANGED <<fs, cwdWritable, cmd, i, stdout, exitcode, fsAtStart, fs0>>

\* if not os.path.exists(path): ... -- the test; os.makedirs(path) is entered
\* when it fails.
CreateDirectory(p) ==
    /\ pc[p] = "create_directory"
    /\ log' = [log EXCEPT ![p] = Append(@, Event("ensure", base_dirs[i[p]]))]
    /\ IF Exists(fs, base_dirs[i[p]])
       THEN /\ AfterDirectory(p)
            /\ UNCHANGED depth
       ELSE /\ pc' = [pc EXCEPT ![p] = "makedirs"]
            /\ depth' = [depth EXCEPT ![p] = Len(base_dirs[i[p]])]
            /\ UNCHANGED i
    /\ UNCHANGED <<fs, cwdWritable, cmd, stdout, exitcode, fsAtStart, fs0>>

\* os.makedirs(name), before its mkdir: when name has a parent that does not
\* exist, makedirs(parent) is called first.
Makedirs(p) ==
    /\ pc[p] = "makedirs"
    /\ IF depth[p] > 1 /\ ~Exists(fs, SubSeq(base_dirs[i[p]], 1, depth[p] - 1))
       THEN /\ depth' = [depth EXCEPT ![p] = depth[p] - 1]
            /\ UNCHANGED pc
       ELSE /\ pc' = [pc EXCEPT ![p] = "mkdir"]
            /\ UNCHANGED depth
    /\ UNCHANGED <<fs, cwdWritable, cmd, i, stdout, exitcode, log, fsAtStart, fs0>>

\* The directory made: the next level of os.makedirs, or the return of
\* create_directory.
MkdirDone(p, name) ==
    /\ fs' = [fs EXCEPT ![name] = "dir"]
    /\ log' = [log EXCEPT ![p] = Append(@, Event("mkdir", name))]
    /\ IF depth[p] < Len(base_dirs[i[p]])
       THEN /\ depth' = [depth EXCEPT ![p] = depth[p] + 1]
            /\ UNCHANGED <<pc, i>>
       ELSE /\ AfterDirectory(p)
            /\ UNCHANGED depth
    /\ UNCHANGED <<cwdWritable, cmd, stdout, exitcode, fsAtStart, fs0>>

\* os.makedirs(name), its mkdir.  The makedirs of a parent swallows
\* FileExistsError; every other error, and FileExistsError on the path
\* create_directory asked for, is raised to the caller.
Mkdir(p) ==
    /\ pc[p] = "mkdir"
    /\ LET name == SubSeq(base_dirs[i[p]], 1, depth[p])
           r    == MkdirResult(fs, cwdWritable, name)
       IN  CASE r = "ok" -> MkdirDone(p, name)
             [] r = "EEXIST" /\ depth[p] < Len(base_dirs[i[p]]) ->
                    /\ depth' = [depth EXCEPT ![p] = depth[p] + 1]
                    /\ UNCHANGED <<fs, cwdWritable, cmd, pc, i, stdout, exitcode,
                                   log, fsAtStart, fs0>>
             [] OTHER -> Raise(p)

(***************************************************************************)
(* create_file                                                             *)
(***************************************************************************)
\* CreateFile opening with mode 'a': an existing file keeps its content.
CreateFileAppend(p) ==
    /\ pc[p] = "create_file"
    /\ LET f == config_files[i[p]]
       IN  IF OpenResult(fs, f.path) = "ok"
           THEN /\ fs' = [fs EXCEPT ![f.path] =
                            IF @ = "absent" THEN Written(f.content) ELSE @]
                /\ log' = [log EXCEPT ![p] = Append(@, Event("write", f.path))]
                /\ AfterFile(p)
                /\ UNCHANGED <<cwdWritable, cmd, depth, stdout, exitcode, fsAtStart, fs0>>
           ELSE Raise(p)

\* with open(path, 'w') as file: file.write(content)
CreateFile(p) ==
    /\ pc[p] = "create_file"
    /\ LET f == config_files[i[p]]
       IN  IF OpenResult(fs, f.path) = "ok"
           THEN /\ fs' = [fs EXCEPT ![f.path] = Written(f.content)]
                /\ log' = [log EXCEPT ![p] = Append(@, Event("write", f.path))]
                /\ AfterFile(p)
                /\ UNCHANGED <<cwdWritable, cmd, depth, stdout, exitcode, fsAtStart, fs0>>
           ELSE Raise(p)

(***************************************************************************)
(* setup_project_structure, its end                                        *)
(***************************************************************************)
\* print("Flask Context Manager structure successfully created!"); then
\* setup_project_structure and main return and the process exits 0.
PrintSuccess(p) ==
    /\ pc[p] = "print"
    /\ stdout' = [stdout EXCEPT ![p] = stdout[p] + 1]
    /\ log' = [log EXCEPT ![p] = Append(@, Event("print", <<>>))]
    /\ pc' = [pc EXCEPT ![p] = "exited"]
    /\ exitcode' = [exitcode EXCEPT ![p] = 0]
    /\ UNCHANGED <<fs, cwdWritable, cmd, i, depth, fsAtStart, fs0>>

(***************************************************************************)
(* Specifications.                                                         *)
(***************************************************************************)
InitOf(procs, trees) ==
    /\ fs \in trees
    /\ cwdWritable \in BOOLEAN
    /\ cmd = [p \in procs |-> "none"]
    /\ pc = [p \in procs |-> "idle"]
    /\ i = [p \in procs |-> 1]
    /\ depth = [p \in procs |-> 1]
    /\ stdout = [p \in procs |-> 0]
    /\ exitcode = [p \in procs |-> -1]
    /\ log = [p \in procs |-> <<>>]
    /\ fsAtStart = [p \in procs |-> fs]
    /\ fs0 = fs

Init == InitOf(1..MaxRuns, FileSystems)

Next ==
    \/ \E p \in DOMAIN pc, c \in Commands : Launch(p, c)
    \/ \E p \in DOMAIN pc : ParseArgs(p)
    \/ \E p \in DOMAIN pc : Dispatch(p)
    \/ \E p \in DOMAIN pc : CreateDirectory(p)
    \/ \E p \in DOMAIN pc : Makedirs(p)
    \/ \E p \in DOMAIN pc : Mkdir(p)
    \/ \E p \in DOMAIN pc : CreateFile(p)
    \/ \E p \in DOMAIN pc : PrintSuccess(p)

\* Invocations run one after the other.
Spec == Init /\ [][Next]_vars

InitConc == InitOf(Instances, DirectoryTrees)

NextConc ==
    \/ \E p \in DOMAIN pc, c \in Commands : LaunchAny(p, c)
    \/ \E p \in DOMAIN pc : ParseArgs(p)
    \/ \E p \in DOMAIN pc : Dispatch(p)
    \/ \E p \in DOMAIN pc : CreateDirectory(p)
    \/ \E p \in DOMAIN pc : Makedirs(p)
    \/ \E p \in DOMAIN pc : Mkdir(p)
    \/ \E p \in DOMAIN pc : CreateFile(p)
    \/ \E p \in DOMAIN pc : PrintSuccess(p)

\* Two invocations run simultaneously, their system calls interleaved.
SpecConc == InitConc /\ [][NextConc]_vars

(***************************************************************************)
(* The documented behaviour, stated with the paths and the order the       *)
(* documentation lists (not with base_dirs and config_files).              *)
(***************************************************************************)
ListedDirs ==
    << <<"src", "main", "config">>,
       <<"src", "main", "service">>,
       <<"src", "main", "controller">>,
       <<"src", "main", "resources">>,
       <<"src", "test", "resources">> >>

ListedFiles ==
    << <<"src", "main", "resources", "config.ini">>,
       <<"src", "test", "resources", "config.ini">> >>

\* The listed directories with the parent directories they imply.
ImpliedDirs == Range(ListedDirs) \cup {<<"src">>, <<"src", "main">>, <<"src", "test">>}

\* The tree a run in an empty working directory is documented to leave.
Scaffold == [path \in Paths |->
                CASE path \in ImpliedDirs -> "dir"
                  [] path \in Range(ListedFiles) -> "file0"
                  [] OTHER -> "absent"]

Ended(p) == pc[p] = "exited"

Succeeded(p) == Ended(p) /\ exitcode[p] = 0

\* No invocation has been launched after p (Spec: invocations are numbered).
Latest(p) == \A q \in DOMAIN pc : q > p => pc[q] = "idle"

\* The calls of p that are steps of setup_project_structure, in order.
Steps(p) == SelectSeq(log[p], LAMBDA e : e.op \in {"ensure", "write", "print"})

\* The documented order of the steps.
ListedSteps ==
    [k \in 1..5 |-> Event("ensure", ListedDirs[k])]
        \o [k \in 1..2 |-> Event("write", ListedFiles[k])]
        \o <<Event("print", <<>>)>>

Writes(p) == SelectSeq(log[p], LAMBDA e : e.op = "write")

----------------------------------------------------------------------------
\* C1: a `start` run in a writable, empty working directory ends with exit
\* code 0, the success line printed exactly once, the five listed
\* directories (and their parents) present, both config.ini files present
\* and empty, and nothing else.
C1_StartInEmptyDirectory ==
    \A p \in DOMAIN pc :
        (cmd[p] = "start" /\ fsAtStart[p] = EmptyFs /\ cwdWritable /\ Ended(p) /\ Latest(p))
            => /\ exitcode[p] = 0
               /\ stdout[p] = 1
               /\ fs = Scaffold

C1_Witness ==
    \E p \in DOMAIN pc :
        cmd[p] = "start" /\ fsAtStart[p] = EmptyFs /\ cwdWritable /\ Succeeded(p) /\ Latest(p)

----------------------------------------------------------------------------
\* C2: a `start` run that directly follows a successful `start` run also
\* succeeds, makes no directory, performs no filesystem change but the two
\* config.ini writes, and leaves the filesystem as the first run left it,
\* with both config.ini files empty.
C2_SecondStartChangesNothing ==
    \A p \in DOMAIN pc : \A q \in DOMAIN pc :
        (q = p + 1 /\ cmd[p] = "start" /\ Succeeded(p) /\ cmd[q] = "start" /\ pc[q] # "idle")
            => /\ fs = fsAtStart[q]
               /\ Made(q) = {}
               /\ \A k \in 1..Len(ListedFiles) : fs[ListedFiles[k]] = "file0"
               /\ Ended(q) => /\ exitcode[q] = 0
                              /\ stdout[q] = 1
                              /\ Writes(q) = [k \in 1..2 |-> Event("write", ListedFiles[k])]

C2_Witness ==
    \E p \in DOMAIN pc : \E q \in DOMAIN pc :
        /\ q = p + 1
        /\ cmd[p] = "start" /\ Succeeded(p) /\ Made(p) # {}
        /\ cmd[q] = "start" /\ Succeeded(q)

----------------------------------------------------------------------------
----------------------------------------------------------------------------
\* C4: when a regular file occupies one of the five directory paths as
\* `start` is launched, the run fails: it ends with a non-zero exit code and
\* never prints the success line.
C4_OccupiedPathFailsRun ==
    \A p \in DOMAIN pc : \A k \in 1..Len(ListedDirs) :
        (cmd[p] = "start" /\ IsFile(fsAtStart[p], ListedDirs[k]) /\ Ended(p))
            => /\ exitcode[p] # 0
               /\ stdout[p] = 0

----------------------------------------------------------------------------
\* No rollback: every directory a failed run made and every file it wrote
\* is still there, unchanged.
C5_NothingUndone ==
    \A p \in DOMAIN pc :
        (Ended(p) /\ exitcode[p] = 1)
            => \A k \in 1..Len(log[p]) :
                  /\ log[p][k].op = "mkdir" => fs[log[p][k].path] = "dir"
                  /\ log[p][k].op = "write" => fs[log[p][k].path] = "file0"

\* Stop at the first failure: a run that has ended makes no further call.
C5_NoStepAfterFailure ==
    \A p \in DOMAIN pc :
        Ended(p) => /\ pc'[p] = pc[p]
                    /\ log'[p] = log[p]
                    /\ stdout'[p] = stdout[p]
                    /\ exitcode'[p] = exitcode[p]

\* C5: a run that a filesystem error ends at step k executes no later step,
\* and every directory it made and every file it wrote in the steps before
\* is still present, unchanged.
C5_StopAtFirstFailureNoRollback == []C5_NothingUndone /\ [][C5_NoStepAfterFailure]_vars

C5_Witness ==
    \E p \in DOMAIN pc :
        /\ Ended(p) /\ exitcode[p] = 1
        /\ Made(p) # {}
        /\ Len(Writes(p)) = 1

----------------------------------------------------------------------------
\* The order alone: the steps of a run are a prefix of the listed steps (five
\* directory steps, the two writes, the success line last).
C6_StepsInListedOrder ==
    \A p \in DOMAIN pc :
        /\ Len(Steps(p)) <= Len(ListedSteps)
        /\ Steps(p) = SubSeq(ListedSteps, 1, Len(Steps(p)))
        /\ stdout[p] = (IF Len(Steps(p)) = Len(ListedSteps) THEN 1 ELSE 0)

\* All five listed directories exist whenever a config.ini write is
\* attempted or has been made.
C6_DirectoriesBeforeWrites ==
    \A p \in DOMAIN pc :
        (pc[p] = "create_file" \/ Len(Writes(p)) > 0)
            => \A k \in 1..Len(ListedDirs) : fs[ListedDirs[k]] = "dir"

\* C6: within a `start` run the five directory steps come in the listed
\* order, every one of the five directories exists before either config.ini
\* write is attempted, the writes come in the listed order, and the success
\* line is printed only after both.
C6_Ordering == C6_StepsInListedOrder /\ C6_DirectoriesBeforeWrites

----------------------------------------------------------------------------
\* C7: whatever the two config.ini paths held before (nothing, an empty
\* file, a non-empty file), after a successful `start` run both are empty
\* files.
C7_ConfigFilesTruncated ==
    \A p \in DOMAIN pc :
        (cmd[p] = "start" /\ Succeeded(p) /\ Latest(p))
            => \A k \in 1..Len(ListedFiles) : fs[ListedFiles[k]] = "file0"

C7_Witness ==
    \E p \in DOMAIN pc :
        /\ cmd[p] = "start" /\ Succeeded(p) /\ Latest(p)
        /\ fsAtStart[p][ListedFiles[1]] = "file1"
        /\ fsAtStart[p][ListedFiles[2]] = "absent"

----------------------------------------------------------------------------
\* A working directory in which nothing is in the way of a run: no regular
\* file at a directory path, no directory at a config.ini path.
RunsAlone(f) ==
    /\ \A path \in ImpliedDirs : ~IsFile(f, path)
    /\ \A k \in 1..Len(ListedFiles) : f[ListedFiles[k]] # "dir"

\* C8: two simultaneous `start` runs in a writable working directory (one in
\* which a run on its own succeeds) both exit 0 with the success line
\* printed, and leave the tree a single run leaves.
C8_ConcurrentRunsBenign ==
    (cwdWritable /\ RunsAlone(fs0) /\ \A p \in DOMAIN pc : cmd[p] = "start" /\ Ended(p))
        => /\ \A p \in DOMAIN pc : exitcode[p] = 0 /\ stdout[p] = 1
           /\ fs = Scaffold

\* What C8 measures against: under Spec, a `start` run on its own in such a
\* working directory succeeds and leaves the full tree.
C8_RunAloneSucceeds ==
    \A p \in DOMAIN pc :
        (cwdWritable /\ RunsAlone(fsAtStart[p]) /\ cmd[p] = "start" /\ Ended(p) /\ Latest(p))
            => exitcode[p] = 0 /\ stdout[p] = 1 /\ fs = Scaffold

----------------------------------------------------------------------------
----------------------------------------------------------------------------
\* C10: of two `start` runs interleaved in an initially empty, writable
\* working directory at most one fails; once both have ended at least one
\* has printed the success line, all five directories exist and both
\* config.ini files exist and are empty.
C10_AtMostOneRacerFails ==
    (fs0 = EmptyFs /\ cwdWritable /\ \A p \in DOMAIN pc : cmd[p] = "start" /\ pc[p] # "idle")
        => /\ Cardinality({p \in DOMAIN pc : Ended(p) /\ exitcode[p] # 0}) <= 1
           /\ (\A p \in DOMAIN pc : Ended(p))
                 => /\ \E p \in DOMAIN pc : stdout[p] = 1 /\ exitcode[p] = 0
                    /\ fs = Scaffold

C10_Witness ==
    /\ fs0 = EmptyFs /\ cwdWritable
    /\ \A p \in DOMAIN pc : cmd[p] = "start" /\ Ended(p)
    /\ \E p \in DOMAIN pc : exitcode[p] = 1

====
